---- MODULE Spec2Model ----
(***************************************************************************)
(* The users/posts service of src/main.py: two SQLite tables reached       *)
(* through SQLAlchemy sessions, one session per request.                   *)
(*                                                                         *)
(* A handler runs without interruption from one await to the next; at an   *)
(* await (db.get / db.execute / db.commit / db.refresh) the requests of    *)
(* the other sessions may run. A read handler is one step, a write handler *)
(* two: its first step is named after the handler, its second is commit    *)
(* (by-id writes) or refresh (creates).                                    *)
(*                                                                         *)
(* Spec       every handler and startup, on the first record of each       *)
(*            collection.                                                  *)
(* SpecPairs  the handlers of the section 8 scenario; the scenario and     *)
(*            the pairs of consecutive responses are followed.             *)
(* SpecIds    creates, deletes and lookups on the first record of each    *)
(*            collection; the deleted ids are followed.                    *)
(* SpecOwners posts of two owners, two posts at a time, created, listed by *)
(*            owner and deleted, with and without the user.                *)
(* SpecFields the field updates on two records a collection.               *)
(* SpecConc   the post handlers, where the storage engine may also reject  *)
(*            a get, an execute, a commit or a refresh.                    *)
(* SpecSess   post requests with storage failures, with a step of its own  *)
(*            for get_db opening the session; the ways the requests ended  *)
(*            are followed.                                                *)
(* SpecRows   the write handlers; the objects the sessions loaded are      *)
(*            followed.                                                    *)
(***************************************************************************)
EXTENDS Integers, Sequences, FiniteSets, TLC

\* ---------------------------------------------------------------- bounds
\* Highest id the model lets the users table assign.
MaxUserId == 2
\* Highest id the model lets the posts table assign.
MaxPostId == 2
\* |likes| stays within this bound (increment/decrement are disabled beyond).
MaxLikes == 2

\* ---------------------------------------------------------------- values
\* Python None / SQL NULL.
None == "None"

\* The requests of the section 8 scenario of the specification.
AdaCreate == [username |-> "ada"]

HiCreate == [user_id |-> 1, title |-> "hi", post_text |-> "world"]

\* A body with a likes field, which PostCreate does not declare.
HiLiked == [user_id |-> 1, title |-> "hi", post_text |-> "world", likes |-> 2]

\* The values the requests carry: the query and path parameters and the new
\* values of the field updates.
NewNames == {""}
NewAdmins == {TRUE}
ImageUrls == {"a.png"}
Titles == {"hi", ""}
NewTitles == {""}
NewTexts == {"moon"}
\* user_id values of a PostCreate and of GET /posts/user/{user_id}.
PostOwners == {1, 2}

\* Path parameters: every id a table can hold.
UserIdArgs == 1..MaxUserId
PostIdArgs == 1..MaxPostId

\* Request bodies of POST /users/: username is required, the other two
\* fields may be left out.
UserBodies == {AdaCreate}

\* class UserCreate: username: str, is_admin: bool = False,
\* image_url: Optional[str] = None
UserCreate(body) ==
    [username |-> body.username,
     is_admin |-> IF "is_admin" \in DOMAIN body THEN body.is_admin ELSE FALSE,
     image_url |-> IF "image_url" \in DOMAIN body THEN body.image_url ELSE None]

\* Request bodies of POST /posts/: the three required fields, for each owner.
PostBodies == [user_id : PostOwners, title : {"hi"}, post_text : {"world"}]

\* Mutant: the schema also takes the likes of the body.
PostCreateWithLikes(body) ==
    IF "likes" \in DOMAIN body
    THEN [user_id |-> body.user_id, title |-> body.title, post_text |-> body.post_text, likes |-> body.likes]
    ELSE [user_id |-> body.user_id, title |-> body.title, post_text |-> body.post_text]

\* class PostCreate: user_id: int, title: str, post_text: str (a field the
\* model does not declare is ignored).
PostCreate(body) == [user_id |-> body.user_id, title |-> body.title, post_text |-> body.post_text]

\* The sessions: at most this many requests are in flight at the same time.
Sessions == {"s1", "s2"}

VARIABLES
    db,        \* the database file: [users |-> id -> row, posts |-> id -> row]
    resp,      \* the response sent last
    sess,      \* per session: the request it serves and what it has loaded
    deleted,   \* history: per table, the ids whose row a request has deleted
    expected,  \* history (SpecConc): per post, the likes its completed adjusts add up to
    seen,      \* history: the likes of the post the write answered last found
    prior,     \* history: the response before the last one, with its `seen`
    stage,     \* history: how far the run has followed the section 8 scenario
    exits,     \* history (SpecSess): the ways the requests have ended so far
    watch      \* which histories this run keeps

vars == <<db, resp, sess, deleted, expected, seen, prior, stage, exits, watch>>

\* ------------------------------------------------------- storage engine
Max(S) == CHOOSE x \in S : \A y \in S : y <= x

\* Mutant: ids counted from 0.
NextRowIdFromZero(tbl) == IF DOMAIN tbl = {} THEN 0 ELSE Max(DOMAIN tbl) + 1

\* SQLite rowid allocation for "id INTEGER NOT NULL, PRIMARY KEY (id)" (no
\* AUTOINCREMENT): one more than the largest rowid now in the table.
NextRowId(tbl) == IF DOMAIN tbl = {} THEN 1 ELSE Max(DOMAIN tbl) + 1

\* INSERT of `row` under primary key `id`.
Insert(tbl, id, row) == [i \in DOMAIN tbl \cup {id} |-> IF i = id THEN row ELSE tbl[i]]

\* DELETE FROM tbl WHERE id = :id (no row matched: the table is unchanged).
DeleteRow(tbl, id) == [i \in DOMAIN tbl \ {id} |-> tbl[i]]

\* UPDATE tbl SET field = :value WHERE id = :id, on a row that is there.
UpdateRow(tbl, id, field, value) == [tbl EXCEPT ![id] = [@ EXCEPT ![field] = value]]

\* Session.get(Model, id): the row with that primary key, or nothing.
\* The result is a sequence of at most one row; `not user` is Get = << >>.
Get(tbl, id) == IF id \in DOMAIN tbl THEN <<tbl[id]>> ELSE << >>

\* Session.refresh(obj): the object's row as the database now holds it.
Refresh(tbl, id) == <<tbl[id]>>

\* The ids of `S` in ascending order (SQLite scans a table in rowid order).
RECURSIVE Ascending(_)
Ascending(S) == IF S = {} THEN << >> ELSE <<CHOOSE x \in S : \A y \in S : x <= y>> \o Ascending(S \ {CHOOSE x \in S : \A y \in S : x <= y})

\* select(Model) with an optional .where(column == value): result.scalars().all()
SelectAll(tbl) == [k \in 1..Cardinality(DOMAIN tbl) |-> tbl[Ascending(DOMAIN tbl)[k]]]

SelectWhere(tbl, field, value) ==
    LET ids == {i \in DOMAIN tbl : tbl[i][field] = value}
    IN  [k \in 1..Cardinality(ids) |-> tbl[Ascending(ids)[k]]]

\* `if name:` / `if title:`: None and the empty string are both falsy.
Truthy(text) == text # None /\ text # ""

\* ------------------------------------------------------------- responses
Reply(op, args, status, rows, detail) ==
    [op |-> op, args |-> args, status |-> status, rows |-> rows, detail |-> detail]

NoReply == Reply("none", [none |-> 0], 0, << >>, "")

\* ------------------------------------------------------------ the routes
\* What each by-id handler does with the object `await db.get(Model, id)`
\* returns: kind "get" returns it, "set" assigns `param` to `field`, "add" adds
\* `delta` to likes, "delete" calls db.delete. `key` is the path parameter,
\* `missing` the detail of the 404, `message` the body of the 200.
Route ==
    [get_user |->
        [kind |-> "get", table |-> "users", key |-> "user_id", missing |-> "User not found"],
     update_user_name |->
        [kind |-> "set", table |-> "users", key |-> "user_id", missing |-> "User not found",
         field |-> "username", param |-> "name", message |-> "User name updated"],
     update_user_is_admin |->
        [kind |-> "set", table |-> "users", key |-> "user_id", missing |-> "User not found",
         field |-> "is_admin", param |-> "is_admin", message |-> "User admin status updated"],
     update_user_image |->
        [kind |-> "set", table |-> "users", key |-> "user_id", missing |-> "User not found",
         field |-> "image_url", param |-> "image_url", message |-> "User image updated"],
     delete_user |->
        [kind |-> "delete", table |-> "users", key |-> "user_id", missing |-> "User not found",
         message |-> "User deleted"],
     get_post |->
        [kind |-> "get", table |-> "posts", key |-> "post_id", missing |-> "Post not found"],
     update_post_title |->
        [kind |-> "set", table |-> "posts", key |-> "post_id", missing |-> "Post not found",
         field |-> "title", param |-> "title", message |-> "Post title updated"],
     update_post_text |->
        [kind |-> "set", table |-> "posts", key |-> "post_id", missing |-> "Post not found",
         field |-> "post_text", param |-> "post_text", message |-> "Post text updated"],
     increment_post_likes |->
        [kind |-> "add", table |-> "posts", key |-> "post_id", missing |-> "Post not found",
         field |-> "likes", delta |-> 1, message |-> "Post likes incremented"],
     decrement_post_likes |->
        [kind |-> "add", table |-> "posts", key |-> "post_id", missing |-> "Post not found",
         field |-> "likes", delta |-> 0 - 1, message |-> "Post likes decremented"],
     delete_post |->
        [kind |-> "delete", table |-> "posts", key |-> "post_id", missing |-> "Post not found",
         message |-> "Post deleted"]]

\* The parameters of a by-id request, by name.
ArgsOf(r, id, value) ==
    IF r.kind = "set" THEN (r.key :> id) @@ (r.param :> value) ELSE (r.key :> id)

\* The object db.get loaded, as the session keeps it in its identity map; a
\* run that does not follow the loaded objects keeps None for it.
Loaded(obj) == IF watch = "rows" THEN obj ELSE None

\* Mutant: an adjustment never takes likes below zero.
WorkClamped(r, obj, value) ==
    IF r.kind = "delete" THEN [kind |-> "delete", table |-> r.table, id |-> obj.id, row |-> Loaded(obj)]
    ELSE [kind |-> "update", table |-> r.table, id |-> obj.id, field |-> r.field, row |-> Loaded(obj),
          old |-> obj[r.field],
          new |-> IF r.kind = "add" THEN Max({0, obj.likes + r.delta}) ELSE value]

\* The unit of work a session holds once the handler has run up to its
\* `await db.commit()`: the loaded object's primary key and, for an assigned
\* attribute, its loaded and its new value; or the object marked deleted.
Work(r, obj, value) ==
    IF r.kind = "delete" THEN [kind |-> "delete", table |-> r.table, id |-> obj.id, row |-> Loaded(obj)]
    ELSE [kind |-> "update", table |-> r.table, id |-> obj.id, field |-> r.field, row |-> Loaded(obj),
          old |-> obj[r.field],
          new |-> IF r.kind = "add" THEN obj.likes + r.delta ELSE value]

\* The flush of an assigned attribute: no UPDATE when the value is the loaded
\* one; else UPDATE .. SET field = :new WHERE id = :id, and StaleDataError
\* (ok = FALSE) when that matches no row.
Flush(tbl, id, field, old, new) ==
    IF old = new THEN [ok |-> TRUE, tbl |-> tbl]
    ELSE IF id \notin DOMAIN tbl THEN [ok |-> FALSE, tbl |-> tbl]
    ELSE [ok |-> TRUE, tbl |-> UpdateRow(tbl, id, field, new)]

\* Mutant: deleting a user deletes the posts that carry its id with it.
DeleteCascades(work, d) ==
    IF work.table = "users"
    THEN [users |-> DeleteRow(d.users, work.id),
          posts |-> [i \in {j \in DOMAIN d.posts : d.posts[j].user_id # work.id} |-> d.posts[i]]]
    ELSE [d EXCEPT ![work.table] = DeleteRow(@, work.id)]

\* The flush of an object marked deleted: DELETE FROM table WHERE id = :id.
\* Post.user_id is a plain Integer column: no row of another table follows.
Delete(work, d) == [d EXCEPT ![work.table] = DeleteRow(@, work.id)]

\* Mutant: the flush merges the loaded object, inserting it when its row is gone.
CommitMerges(work, d) ==
    IF work.kind = "delete"
    THEN [ok |-> TRUE, db |-> Delete(work, d)]
    ELSE IF work.id \in DOMAIN d[work.table]
         THEN [ok |-> TRUE, db |-> [d EXCEPT ![work.table] = UpdateRow(@, work.id, work.field, work.new)]]
         ELSE [ok |-> TRUE, db |-> [d EXCEPT ![work.table] =
                                       Insert(@, work.id, [work.row EXCEPT ![work.field] = work.new])]]

\* `await db.commit()` of a unit of work on database d: the flush, then the
\* COMMIT. A DELETE that matches no row only warns.
Commit(work, d) ==
    IF work.kind = "delete"
    THEN [ok |-> TRUE, db |-> Delete(work, d)]
    ELSE LET out == Flush(d[work.table], work.id, work.field, work.old, work.new)
         IN  [ok |-> out.ok, db |-> [d EXCEPT ![work.table] = out.tbl]]

\* The model follows likes within -MaxLikes..MaxLikes.
Bounded(work) ==
    (work.kind = "update" /\ work.field = "likes") => work.new \in (0 - MaxLikes)..MaxLikes

\* User(**user.dict()) / Post(**post.dict()) as the INSERT stores it under
\* `id`; a Post not given likes gets the column default likes = 0.
NewRow(table, fields, id) ==
    IF table = "users"
    THEN [id |-> id, username |-> fields.username, is_admin |-> fields.is_admin, image_url |-> fields.image_url]
    ELSE [id |-> id, user_id |-> fields.user_id, title |-> fields.title, post_text |-> fields.post_text,
          likes |-> IF "likes" \in DOMAIN fields THEN fields.likes ELSE 0]

\* db.add(new); await db.commit() on database d: the id given and the database after.
Add(table, fields, d) ==
    LET id == NextRowId(d[table])
    IN  [id |-> id, db |-> [d EXCEPT ![table] = Insert(@, id, NewRow(table, fields, id))]]

ServerError == "Internal Server Error"

\* A database file that holds no table yet.
NoTables == << >>

\* Mutant: the tables are created anew on every startup.
CreateAllAnew(d) == [users |-> << >>, posts |-> << >>]

\* Base.metadata.create_all: CREATE TABLE for each table of the metadata that
\* the database does not hold (checkfirst); a table it holds is left alone.
CreateAll(d) ==
    [users |-> IF "users" \in DOMAIN d THEN d.users ELSE << >>,
     posts |-> IF "posts" \in DOMAIN d THEN d.posts ELSE << >>]

\* The database after the first startup.
EmptyDb == CreateAll(NoTables)

\* The service after startup on a new database file, no request served yet.
Start ==
    /\ db = EmptyDb
    /\ resp = NoReply
    /\ sess = [s \in Sessions |-> [pc |-> "idle", open |-> FALSE]]
    /\ deleted = [users |-> {}, posts |-> {}]
    /\ expected = << >>
    /\ seen = 0
    /\ prior = [resp |-> NoReply, likes |-> 0]
    /\ stage = 0
    /\ exits = {}
\* ---------------------------------------------------------------- handlers
\* Each request has its own session (get_db). A handler runs without
\* interruption between two awaits; at an await the other sessions may run.
\* A read handler has one await (db.get or db.execute) and is one step; a
\* write handler has two (db.get then db.commit, or db.commit then
\* db.refresh) and is two steps, the first named after the handler.
Idle == [pc |-> "idle", open |-> FALSE]

\* get_db's `async with SessionLocal() as session: yield session`: the
\* session the request gets, open, before the handler has run its first await.
Open(op, args) == [pc |-> "accepted", open |-> TRUE, op |-> op, args |-> args]

\* Sessions are alike, so a new request takes the first that serves none.
Free == IF sess["s1"].pc = "idle" THEN {"s1"} ELSE {s \in Sessions : sess[s].pc = "idle"}

\* The handler has returned or raised: the session serves no request any
\* more, and is as open as the handler left it (no handler closes it).
Left(session) == [pc |-> "idle", open |-> session.open]

\* Mutant: the session is closed after the handler returns, not when it raises.
CloseOnReturn(session, raised) ==
    IF raised THEN Left(session) ELSE [Left(session) EXCEPT !.open = FALSE]

\* The exit of get_db's `async with SessionLocal() as session` when the
\* request ends: the session is closed whether the handler returned or raised.
Close(session, raised) == [Left(session) EXCEPT !.open = FALSE]

\* get_db opens the session of a new request and the handler runs up to its
\* first await. Only the runs that follow the sessions make this a step of
\* its own; in the others it is part of the handler's first step.
accept(s, op, args) ==
    /\ s \in Free
    /\ sess' = [sess EXCEPT ![s] = Open(op, args)]
    /\ UNCHANGED <<db, resp>>

\* Session s is where the first await of request op(args) is run: the
\* session accept opened for it, or else a free one that is opened now.
Waiting(s, op, args) ==
    IF watch = "sessions"
    THEN sess[s].pc = "accepted" /\ sess[s].op = op /\ sess[s].args = args
    ELSE s \in Free

\* Mutant: delete_user removes the posts of the id before it looks for the user.
NotFoundAfterCleanup(s, op, args, detail) ==
    /\ resp' = Reply(op, args, 404, << >>, detail)
    /\ db' = IF op = "delete_user"
             THEN [db EXCEPT !.posts = [i \in {j \in DOMAIN db.posts : db.posts[j].user_id # args.user_id} |-> db.posts[i]]]
             ELSE db
    /\ sess' = [sess EXCEPT ![s] = Close(Open(op, args), TRUE)]

\* raise HTTPException(status_code=404, detail=...): nothing was changed, and
\* the exception leaves get_db, which closes the session.
NotFound(s, op, args, detail) ==
    /\ resp' = Reply(op, args, 404, << >>, detail)
    /\ sess' = [sess EXCEPT ![s] = Close(Open(op, args), TRUE)]
    /\ UNCHANGED db

\* The return of a read handler: the response is built, nothing is written,
\* and get_db closes the session.
Read(s, op, args, rows) ==
    /\ resp' = Reply(op, args, 200, rows, "")
    /\ sess' = [sess EXCEPT ![s] = Close(Open(op, args), FALSE)]
    /\ UNCHANGED db

\* A get-by-id handler, with routes `route`: db.get, the 404 or the object.
GetVia(route, s, op, id) ==
    LET r == route[op]
        obj == Get(db[r.table], id)
    IN  /\ Waiting(s, op, ArgsOf(r, id, None))
        /\ IF obj = << >> THEN NotFound(s, op, ArgsOf(r, id, None), r.missing)
           ELSE Read(s, op, ArgsOf(r, id, None), obj)

\* A by-id write handler in session s from its `await db.get` to its
\* `await db.commit()`, with routes `route`: db.get, the 404, the assignment
\* (or db.delete).
BeginVia(route, s, op, id, value) ==
    LET r == route[op]
        args == ArgsOf(r, id, value)
        obj == Get(db[r.table], id)
    IN  /\ Waiting(s, op, args)
        /\ IF obj = << >> THEN NotFound(s, op, args, r.missing)
           ELSE LET work == Work(r, obj[1], value)
                IN  /\ Bounded(work)
                    /\ sess' = [sess EXCEPT ![s] = [pc |-> "commit", open |-> TRUE, op |-> op, args |-> args,
                                                    work |-> work, message |-> r.message, wrote |-> FALSE]]
                    /\ UNCHANGED <<db, resp>>

begin(s, op, id, value) == BeginVia(Route, s, op, id, value)

\* Mutant: the flush writes every column of the loaded object, not the changed one.
commit_writes_object(s) ==
    LET work == sess[s].work
        out == IF work.kind = "update" /\ work.id \in DOMAIN db[work.table]
               THEN [ok |-> TRUE, db |-> [db EXCEPT ![work.table][work.id] = [work.row EXCEPT ![work.field] = work.new]]]
               ELSE Commit(work, db)
    IN  /\ sess[s].pc = "commit"
        /\ db' = out.db
        /\ resp' = IF out.ok THEN Reply(sess[s].op, sess[s].args, 200, << >>, sess[s].message)
                   ELSE Reply(sess[s].op, sess[s].args, 500, << >>, ServerError)
        /\ sess' = [sess EXCEPT ![s] = Close(sess[s], ~out.ok)]

\* `await db.commit()` of a by-id write handler, and its return.
commit(s) ==
    LET work == sess[s].work
        out == Commit(work, db)
    IN  /\ sess[s].pc = "commit"
        /\ db' = out.db
        /\ resp' = IF out.ok THEN Reply(sess[s].op, sess[s].args, 200, << >>, sess[s].message)
                   ELSE Reply(sess[s].op, sess[s].args, 500, << >>, ServerError)
        /\ sess' = [sess EXCEPT ![s] = Close(sess[s], ~out.ok)]

\* What each create handler adds: the table, the validated fields of the
\* body, and the highest id the model lets the table assign.
TableOfCreate(op) == IF op = "create_user" THEN "users" ELSE "posts"

FieldsOfCreate(op, body) == IF op = "create_user" THEN UserCreate(body) ELSE PostCreate(body)

LimitOfCreate(op) == IF op = "create_user" THEN MaxUserId ELSE MaxPostId

\* The table a create would add to holds no row: the runs that follow the
\* first record of a collection only take up such creates.
Vacant(op) == db[TableOfCreate(op)] = << >>

\* A create handler in session s through its `await db.commit()`: the row
\* is inserted and committed.
insert(s, op, body) ==
    LET table == TableOfCreate(op)
        added == Add(table, FieldsOfCreate(op, body), db)
    IN  /\ Waiting(s, op, body)
        /\ added.id <= LimitOfCreate(op)
        /\ db' = added.db
        /\ sess' = [sess EXCEPT ![s] = [pc |-> "refresh", open |-> TRUE, op |-> op, args |-> body,
                                        work |-> [kind |-> "insert", table |-> table, id |-> added.id],
                                        message |-> "", wrote |-> TRUE]]
        /\ UNCHANGED resp

\* `await db.refresh(new)` of a create handler, and its return: the row is
\* read back; InvalidRequestError when it is no longer there.
refresh(s) ==
    LET work == sess[s].work
    IN  /\ sess[s].pc = "refresh"
        /\ resp' = IF work.id \in DOMAIN db[work.table]
                   THEN Reply(sess[s].op, sess[s].args, 200, Refresh(db[work.table], work.id), "")
                   ELSE Reply(sess[s].op, sess[s].args, 500, << >>, ServerError)
        /\ sess' = [sess EXCEPT ![s] = Close(sess[s], work.id \notin DOMAIN db[work.table])]
        /\ UNCHANGED db

\* The storage engine raises in a handler's first await (db.get, db.execute,
\* or the db.commit of a create): the exception leaves the handler and
\* get_db, which closes the session; nothing was written.
raise_in_first_await(s, op, args) ==
    /\ Waiting(s, op, args)
    /\ resp' = Reply(op, args, 500, << >>, ServerError)
    /\ sess' = [sess EXCEPT ![s] = Close(Open(op, args), TRUE)]
    /\ UNCHANGED db

\* The storage engine rejects the commit of a by-id write handler: the
\* exception leaves the handler and closing the session rolls back.
raise_in_commit(s) ==
    /\ sess[s].pc = "commit"
    /\ resp' = Reply(sess[s].op, sess[s].args, 500, << >>, ServerError)
    /\ sess' = [sess EXCEPT ![s] = Close(sess[s], TRUE)]
    /\ UNCHANGED db

\* The storage engine raises in the refresh of a create handler, after the
\* commit: the exception leaves the handler and the session is closed.
raise_in_refresh(s) ==
    /\ sess[s].pc = "refresh"
    /\ resp' = Reply(sess[s].op, sess[s].args, 500, << >>, ServerError)
    /\ sess' = [sess EXCEPT ![s] = Close(sess[s], TRUE)]
    /\ UNCHANGED db

\* @app.on_event("startup"): the process, stopped with no request in
\* flight, is started again on the database file the earlier runs left.
startup ==
    /\ \A s \in Sessions : sess[s].pc = "idle"
    /\ db' = CreateAll(db)
    /\ resp' = Reply("startup", [none |-> 0], 0, << >>, "")
    /\ UNCHANGED sess

\* POST /users/, through its `await db.commit()`; refresh(s) is the rest.
create_user(s, body) == insert(s, "create_user", body)

\* GET /users/?name=
get_users(s, name) ==
    /\ Waiting(s, "get_users", [name |-> name])
    /\ Read(s, "get_users", [name |-> name],
            IF Truthy(name) THEN SelectWhere(db.users, "username", name) ELSE SelectAll(db.users))

\* Mutant: the lookup goes to the other model, db.get(Post, user_id).
get_user_other_model(s, user_id) ==
    GetVia([Route EXCEPT !.get_user.table = "posts"], s, "get_user", user_id)

\* GET /users/{user_id}
get_user(s, user_id) == GetVia(Route, s, "get_user", user_id)

\* PATCH /users/{user_id}/name, up to its `await db.commit()`; commit(s) is
\* the rest, as for every by-id write handler below.
update_user_name(s, user_id, name) == begin(s, "update_user_name", user_id, name)

\* PATCH /users/{user_id}/is_admin
update_user_is_admin(s, user_id, is_admin) == begin(s, "update_user_is_admin", user_id, is_admin)

\* Mutant: the assignment goes to the attribute of the handler above.
update_user_image_sets_name(s, user_id, image_url) ==
    BeginVia([Route EXCEPT !.update_user_image.field = "username"], s, "update_user_image", user_id, image_url)

\* PATCH /users/{user_id}/image_url
update_user_image(s, user_id, image_url) == begin(s, "update_user_image", user_id, image_url)

\* DELETE /users/{user_id}
delete_user(s, user_id) == begin(s, "delete_user", user_id, None)

\* POST /posts/, through its `await db.commit()`; refresh(s) is the rest.
create_post(s, body) == insert(s, "create_post", body)

\* GET /posts/?title=
get_posts(s, title) ==
    /\ Waiting(s, "get_posts", [title |-> title])
    /\ Read(s, "get_posts", [title |-> title],
            IF Truthy(title) THEN SelectWhere(db.posts, "title", title) ELSE SelectAll(db.posts))

\* Mutant: the select has no where clause.
get_posts_by_user_unfiltered(s, user_id) ==
    /\ Waiting(s, "get_posts_by_user", [user_id |-> user_id])
    /\ Read(s, "get_posts_by_user", [user_id |-> user_id], SelectAll(db.posts))

\* GET /posts/user/{user_id}
get_posts_by_user(s, user_id) ==
    /\ Waiting(s, "get_posts_by_user", [user_id |-> user_id])
    /\ Read(s, "get_posts_by_user", [user_id |-> user_id], SelectWhere(db.posts, "user_id", user_id))

\* GET /posts/{post_id}
get_post(s, post_id) == GetVia(Route, s, "get_post", post_id)

\* PATCH /posts/{post_id}/title
update_post_title(s, post_id, title) == begin(s, "update_post_title", post_id, title)

\* PATCH /posts/{post_id}/post_text
update_post_text(s, post_id, post_text) == begin(s, "update_post_text", post_id, post_text)

\* PATCH /posts/{post_id}/increment_likes
increment_post_likes(s, post_id) == begin(s, "increment_post_likes", post_id, None)

\* Mutant: the body of the handler above, likes += 1.
decrement_post_likes_adds(s, post_id) ==
    BeginVia([Route EXCEPT !.decrement_post_likes.delta = 1], s, "decrement_post_likes", post_id, None)

\* PATCH /posts/{post_id}/decrement_likes
decrement_post_likes(s, post_id) == begin(s, "decrement_post_likes", post_id, None)

\* DELETE /posts/{post_id}
delete_post(s, post_id) == begin(s, "delete_post", post_id, None)
\* ------------------------------------------------------------- histories
\* History variables only watch the steps; no handler reads them.

\* Session s takes up a request in this step, or ends the one it serves.
Began(s) == sess[s].pc = "idle" /\ sess'[s].pc # "idle"

Ended(s) == sess[s].pc # "idle" /\ sess'[s].pc = "idle"

\* A step that sends no response: a request goes on to its next await.
Quiet == \E s \in Sessions : sess'[s] # sess[s] /\ sess'[s].pc # "idle"

\* The response this step sends.
Answer == IF Quiet THEN NoReply ELSE resp'

\* The by-id write request whose commit this step is (a set of at most one).
Committed == {sess[s] : s \in {t \in Sessions : Ended(t) /\ sess[t].pc = "commit"}}

\* The by-id write request that has read its row in this step and goes on
\* to its commit (a set of at most one).
Begun == {sess'[s] : s \in {t \in Sessions : sess[t].pc # "commit" /\ sess'[t].pc = "commit"}}

\* The create request that inserts its row in this step (a set of at most one).
Inserted == {sess'[s] : s \in {t \in Sessions : sess[t].pc # "refresh" /\ sess'[t].pc = "refresh"}}

AllIdle == \A s \in Sessions : sess[s].pc = "idle"

\* The stage the response of this step takes the scenario to: 1 when "ada" has
\* been created, is the only record and no request is in flight, then one
\* further with each request of the scenario answered with no other request
\* in flight, and back to 0 with any other response.
Follow(op, args) ==
    IF \E s \in Sessions : sess'[s].pc # "idle" THEN 0
    ELSE IF op = "create_user" /\ args = AdaCreate /\ db'.posts = << >>
            /\ Cardinality(DOMAIN db'.users) = 1 THEN 1
    ELSE IF stage = 1 /\ op = "create_post" /\ args = HiCreate THEN 2
    ELSE IF stage \in {2, 3} /\ op = "increment_post_likes" /\ args.post_id = 1 THEN stage + 1
    ELSE IF stage = 4 /\ op = "decrement_post_likes" /\ args.post_id = 1 THEN 5
    ELSE IF stage = 5 /\ op = "delete_post" /\ args.post_id = 1 THEN 6
    ELSE IF stage = 6 /\ op = "get_post" /\ args.post_id = 1 THEN 7
    ELSE 0

\* A request taken up while another is in flight ends the scenario.
WatchStage ==
    stage' = IF Quiet THEN (IF AllIdle THEN stage ELSE 0) ELSE Follow(resp'.op, resp'.args)

\* The rows that were there before the step and are gone after it.
WatchDeleted ==
    deleted' = [t \in {"users", "posts"} |-> deleted[t] \cup (DOMAIN db[t] \ DOMAIN db'[t])]

AdjustOps == {"increment_post_likes", "decrement_post_likes"}

PairOps == {"create_user", "create_post", "increment_post_likes"}

NoPrior == [resp |-> NoReply, likes |-> 0]

\* seen: the likes the database held for the post when the adjustment
\* answered in this step committed; prior: the response before the one of
\* this step, with its `seen`. A step that sends no response leaves both.
WatchPairs ==
    /\ seen' = IF Quiet THEN seen
               ELSE LET adjusted == {c \in Committed : c.op \in AdjustOps /\ c.work.id \in DOMAIN db.posts}
                    IN  IF adjusted = {} THEN 0 ELSE db.posts[(CHOOSE c \in adjusted : TRUE).work.id].likes
    /\ prior' = IF Quiet THEN prior
                ELSE IF resp.op \in PairOps /\ resp.status = 200
                     THEN [resp |-> resp, likes |-> seen] ELSE NoPrior

\* What `expected` keeps for a post: the likes it would have had each completed
\* adjustment been applied to the stored value, and whether every completed
\* adjustment so far was an increment.
Fresh == [likes |-> 0, pure |-> TRUE]

WatchExpected ==
    expected' =
        LET added == {new \in Inserted : new.work.table = "posts"}
            ended == {c.work : c \in {e \in Committed : e.work.table = "posts" /\ resp'.status = 200
                                                          /\ e.work.id \in DOMAIN expected}}
        IN  IF added # {} THEN Insert(expected, (CHOOSE new \in added : TRUE).work.id, Fresh)
            ELSE IF ended = {} THEN expected
            ELSE LET work == CHOOSE w \in ended : TRUE
                 IN  IF work.kind = "delete" THEN DeleteRow(expected, work.id)
                     ELSE IF work.field = "likes"
                          THEN [expected EXCEPT ![work.id] = [likes |-> @.likes + (work.new - work.old),
                                                              pure |-> @.pure /\ work.new > work.old]]
                          ELSE expected

\* The model follows the expected likes within -MaxLikes..MaxLikes.
ExpectedBounded(post_id, delta) ==
    post_id \in DOMAIN expected => expected[post_id].likes + delta \in (0 - MaxLikes)..MaxLikes

\* The way the request of session s ends in this step: the return, the 404,
\* or the await in which the storage engine raised.
ExitOf(s) ==
    IF resp'.status = 200 THEN "return"
    ELSE IF resp'.status = 404 THEN "not found"
    ELSE IF sess[s].pc # "accepted" THEN sess[s].pc
    ELSE IF sess[s].op \in {"create_user", "create_post"} THEN "commit"
    ELSE IF sess[s].op \in {"get_users", "get_posts", "get_posts_by_user"} THEN "execute"
    ELSE "get"

Exits == {"return", "not found", "get", "execute", "commit", "refresh"}

WatchExits == exits' = exits \cup {ExitOf(s) : s \in {t \in Sessions : Ended(t)}}

\* ------------------------------------------------------------------ runs
\* One step of one request: a read handler, or a write handler up to its
\* second await, or the rest of a write handler (commit, refresh).

\* The requests on the first record of a collection.
FirstId == {1}

Watch == UNCHANGED <<deleted, expected, seen, prior, stage, exits, watch>>

Next ==
    \/ \E s \in Sessions, body \in UserBodies : Vacant("create_user") /\ create_user(s, body) /\ Watch
    \/ \E s \in Sessions, name \in {"", None} : get_users(s, name) /\ Watch
    \/ \E s \in Sessions, user_id \in FirstId : get_user(s, user_id) /\ Watch
    \/ \E s \in Sessions, user_id \in FirstId, name \in NewNames : update_user_name(s, user_id, name) /\ Watch
    \/ \E s \in Sessions, user_id \in FirstId, is_admin \in NewAdmins : update_user_is_admin(s, user_id, is_admin) /\ Watch
    \/ \E s \in Sessions, user_id \in FirstId, image_url \in ImageUrls : update_user_image(s, user_id, image_url) /\ Watch
    \/ \E s \in Sessions, user_id \in FirstId : delete_user(s, user_id) /\ Watch
    \/ \E s \in Sessions : Vacant("create_post") /\ create_post(s, HiLiked) /\ Watch
    \/ \E s \in Sessions, title \in {"", None} : get_posts(s, title) /\ Watch
    \/ \E s \in Sessions, user_id \in FirstId : get_posts_by_user(s, user_id) /\ Watch
    \/ \E s \in Sessions, post_id \in FirstId : get_post(s, post_id) /\ Watch
    \/ \E s \in Sessions, post_id \in FirstId, title \in NewTitles : update_post_title(s, post_id, title) /\ Watch
    \/ \E s \in Sessions, post_id \in FirstId, post_text \in NewTexts : update_post_text(s, post_id, post_text) /\ Watch
    \/ \E s \in Sessions, post_id \in FirstId : increment_post_likes(s, post_id) /\ Watch
    \/ \E s \in Sessions, post_id \in FirstId : decrement_post_likes(s, post_id) /\ Watch
    \/ \E s \in Sessions, post_id \in FirstId : delete_post(s, post_id) /\ Watch
    \/ \E s \in Sessions : commit(s) /\ Watch
    \/ \E s \in Sessions : refresh(s) /\ Watch
    \/ startup /\ Watch

Init == Start /\ watch = "none"

\* Every handler and startup, interleaved at the awaits, on the first record
\* of each collection.
Spec == Init /\ [][Next]_vars

WatchThePairs == WatchStage /\ WatchPairs /\ UNCHANGED <<deleted, expected, exits, watch>>

NextPairs ==
    \/ \E s \in Sessions : Vacant("create_user") /\ create_user(s, AdaCreate) /\ WatchThePairs
    \/ \E s \in Sessions, user_id \in FirstId : get_user(s, user_id) /\ WatchThePairs
    \/ \E s \in Sessions : Vacant("create_post") /\ create_post(s, HiCreate) /\ WatchThePairs
    \/ \E s \in Sessions, post_id \in FirstId : get_post(s, post_id) /\ WatchThePairs
    \/ \E s \in Sessions, post_id \in FirstId : increment_post_likes(s, post_id) /\ WatchThePairs
    \/ \E s \in Sessions, post_id \in FirstId : decrement_post_likes(s, post_id) /\ WatchThePairs
    \/ \E s \in Sessions, post_id \in FirstId : delete_post(s, post_id) /\ WatchThePairs
    \/ \E s \in Sessions : commit(s) /\ WatchThePairs
    \/ \E s \in Sessions : refresh(s) /\ WatchThePairs

InitPairs == Start /\ watch = "pairs"

\* The handlers of the section 8 scenario, interleaved; the scenario and the
\* pairs of consecutive responses are watched.
SpecPairs == InitPairs /\ [][NextPairs]_vars

WatchIds == WatchDeleted /\ UNCHANGED <<expected, seen, prior, stage, exits, watch>>

NextIds ==
    \/ \E s \in Sessions, body \in UserBodies : Vacant("create_user") /\ create_user(s, body) /\ WatchIds
    \/ \E s \in Sessions, user_id \in FirstId : get_user(s, user_id) /\ WatchIds
    \/ \E s \in Sessions, user_id \in FirstId, name \in NewNames : update_user_name(s, user_id, name) /\ WatchIds
    \/ \E s \in Sessions, user_id \in FirstId : delete_user(s, user_id) /\ WatchIds
    \/ \E s \in Sessions : Vacant("create_post") /\ create_post(s, HiCreate) /\ WatchIds
    \/ \E s \in Sessions, user_id \in FirstId : get_posts_by_user(s, user_id) /\ WatchIds
    \/ \E s \in Sessions, post_id \in FirstId : get_post(s, post_id) /\ WatchIds
    \/ \E s \in Sessions, post_id \in FirstId : increment_post_likes(s, post_id) /\ WatchIds
    \/ \E s \in Sessions, post_id \in FirstId : delete_post(s, post_id) /\ WatchIds
    \/ \E s \in Sessions : commit(s) /\ WatchIds
    \/ \E s \in Sessions : refresh(s) /\ WatchIds

InitIds == Start /\ watch = "ids"

\* Creates, deletes and by-id requests, interleaved, on the first record of
\* each collection; the deleted ids are watched.
SpecIds == InitIds /\ [][NextIds]_vars

NextOwners ==
    \/ \E s \in Sessions, body \in UserBodies : Vacant("create_user") /\ create_user(s, body) /\ WatchIds
    \/ \E s \in Sessions, user_id \in FirstId : delete_user(s, user_id) /\ WatchIds
    \/ \E s \in Sessions, body \in PostBodies : create_post(s, body) /\ WatchIds
    \/ \E s \in Sessions, user_id \in PostOwners : get_posts_by_user(s, user_id) /\ WatchIds
    \/ \E s \in Sessions, post_id \in PostIdArgs : delete_post(s, post_id) /\ WatchIds
    \/ \E s \in Sessions : commit(s) /\ WatchIds
    \/ \E s \in Sessions : refresh(s) /\ WatchIds

InitOwners == Start /\ watch = "owners"

\* Posts created for two owners, up to MaxPostId at a time, listed by owner
\* and deleted, interleaved with the one user created and deleted; the
\* deleted ids are watched.
SpecOwners == InitOwners /\ [][NextOwners]_vars

NextFields ==
    \/ \E s \in Sessions, body \in UserBodies :
          (watch = "post fields" => Vacant("create_user")) /\ create_user(s, body) /\ Watch
    \/ \E s \in Sessions, user_id \in UserIdArgs, name \in NewNames :
          watch = "user fields" /\ update_user_name(s, user_id, name) /\ Watch
    \/ \E s \in Sessions, user_id \in UserIdArgs, is_admin \in NewAdmins :
          watch = "user fields" /\ update_user_is_admin(s, user_id, is_admin) /\ Watch
    \/ \E s \in Sessions, user_id \in UserIdArgs, image_url \in ImageUrls :
          watch = "user fields" /\ update_user_image(s, user_id, image_url) /\ Watch
    \/ \E s \in Sessions :
          (watch = "user fields" => Vacant("create_post")) /\ create_post(s, HiCreate) /\ Watch
    \/ \E s \in Sessions, post_id \in PostIdArgs, title \in Titles :
          watch = "post fields" /\ update_post_title(s, post_id, title) /\ Watch
    \/ \E s \in Sessions, post_id \in PostIdArgs, post_text \in NewTexts :
          watch = "post fields" /\ update_post_text(s, post_id, post_text) /\ Watch
    \/ \E s \in Sessions : commit(s) /\ Watch
    \/ \E s \in Sessions : refresh(s) /\ Watch

InitFields == Start /\ watch \in {"user fields", "post fields"}

\* The creates and the field updates, interleaved: a run updates the fields
\* of one collection, which holds up to two records, and the other
\* collection holds its first record.
SpecFields == InitFields /\ [][NextFields]_vars

\* The requests of the runs that follow the sessions: post handlers, on post 1.
ConcRequests ==
    {[op |-> "create_post", args |-> HiCreate],
     [op |-> "get_post", args |-> [post_id |-> 1]],
     [op |-> "get_posts", args |-> [title |-> None]],
     [op |-> "increment_post_likes", args |-> [post_id |-> 1]],
     [op |-> "delete_post", args |-> [post_id |-> 1]]}

\* The requests of the runs with storage failures: those above and the other
\* by-id writes of a post, each of which the storage engine may reject in
\* its first await.
FailRequests ==
    ConcRequests
    \cup {[op |-> "update_post_title", args |-> [post_id |-> 1, title |-> title]] : title \in Titles}
    \cup {[op |-> "update_post_text", args |-> [post_id |-> 1, post_text |-> post_text]] : post_text \in NewTexts}
    \cup {[op |-> "decrement_post_likes", args |-> [post_id |-> 1]]}

WatchConc == WatchExpected /\ UNCHANGED <<deleted, seen, prior, stage, exits, watch>>

NextConc ==
    \/ \E s \in Sessions : create_post(s, HiCreate) /\ WatchConc
    \/ \E s \in Sessions : refresh(s) /\ WatchConc
    \/ \E s \in Sessions, post_id \in FirstId : get_post(s, post_id) /\ WatchConc
    \/ \E s \in Sessions : get_posts(s, None) /\ WatchConc
    \/ \E s \in Sessions, post_id \in FirstId, title \in Titles : update_post_title(s, post_id, title) /\ WatchConc
    \/ \E s \in Sessions, post_id \in FirstId, post_text \in NewTexts : update_post_text(s, post_id, post_text) /\ WatchConc
    \/ \E s \in Sessions, post_id \in FirstId :
          ExpectedBounded(post_id, 1) /\ increment_post_likes(s, post_id) /\ WatchConc
    \/ \E s \in Sessions, post_id \in FirstId :
          ExpectedBounded(post_id, 0 - 1) /\ decrement_post_likes(s, post_id) /\ WatchConc
    \/ \E s \in Sessions, post_id \in FirstId : delete_post(s, post_id) /\ WatchConc
    \/ \E s \in Sessions : commit(s) /\ WatchConc
    \/ \E s \in Sessions, r \in FailRequests : raise_in_first_await(s, r.op, r.args) /\ WatchConc
    \/ \E s \in Sessions : raise_in_commit(s) /\ WatchConc
    \/ \E s \in Sessions : raise_in_refresh(s) /\ WatchConc

InitConc == Start /\ watch = "conc"

\* The post handlers, interleaved, with storage failures; the expected likes
\* are watched.
SpecConc == InitConc /\ [][NextConc]_vars

WatchSess == WatchExits /\ UNCHANGED <<deleted, expected, seen, prior, stage, watch>>

NextSess ==
    \/ \E s \in Sessions, r \in ConcRequests :
          (r.op = "create_post" => Vacant(r.op)) /\ accept(s, r.op, r.args) /\ WatchSess
    \/ \E s \in Sessions : create_post(s, HiCreate) /\ WatchSess
    \/ \E s \in Sessions : refresh(s) /\ WatchSess
    \/ \E s \in Sessions, post_id \in FirstId : get_post(s, post_id) /\ WatchSess
    \/ \E s \in Sessions : get_posts(s, None) /\ WatchSess
    \/ \E s \in Sessions, post_id \in FirstId : increment_post_likes(s, post_id) /\ WatchSess
    \/ \E s \in Sessions, post_id \in FirstId : delete_post(s, post_id) /\ WatchSess
    \/ \E s \in Sessions : commit(s) /\ WatchSess
    \/ \E s \in Sessions, r \in ConcRequests : raise_in_first_await(s, r.op, r.args) /\ WatchSess
    \/ \E s \in Sessions : raise_in_commit(s) /\ WatchSess
    \/ \E s \in Sessions : raise_in_refresh(s) /\ WatchSess

InitSess == Start /\ watch = "sessions"

\* The post handlers with storage failures, get_db opening the session in a
\* step of its own; the ways the requests end are watched.
SpecSess == InitSess /\ [][NextSess]_vars

\* The likes of the object the post update that committed in this step had
\* loaded.
WatchRows ==
    /\ seen' = LET ended == {c \in Committed : c.work.table = "posts" /\ c.work.kind = "update"}
               IN  IF ended = {} THEN 0 ELSE (CHOOSE c \in ended : TRUE).work.row.likes
    /\ UNCHANGED <<deleted, expected, prior, stage, exits, watch>>

NextRows ==
    \/ \E s \in Sessions : Vacant("create_post") /\ create_post(s, HiCreate) /\ WatchRows
    \/ \E s \in Sessions : refresh(s) /\ WatchRows
    \/ \E s \in Sessions, post_id \in FirstId, title \in Titles : update_post_title(s, post_id, title) /\ WatchRows
    \/ \E s \in Sessions, post_id \in FirstId, post_text \in NewTexts : update_post_text(s, post_id, post_text) /\ WatchRows
    \/ \E s \in Sessions, post_id \in FirstId : increment_post_likes(s, post_id) /\ WatchRows
    \/ \E s \in Sessions, post_id \in FirstId : delete_post(s, post_id) /\ WatchRows
    \/ \E s \in Sessions : Vacant("create_user") /\ create_user(s, AdaCreate) /\ WatchRows
    \/ \E s \in Sessions, user_id \in FirstId : update_user_name(s, user_id, "") /\ WatchRows
    \/ \E s \in Sessions, user_id \in FirstId : delete_user(s, user_id) /\ WatchRows
    \/ \E s \in Sessions : commit(s) /\ WatchRows

InitRows == Start /\ watch = "rows"

\* The write handlers of posts and users, interleaved; the objects the
\* sessions loaded are followed.
SpecRows == InitRows /\ [][NextRows]_vars

\* ------------------------------------------------------------ properties
UserByIdOps == {"get_user", "update_user_name", "update_user_is_admin", "update_user_image", "delete_user"}

PostByIdOps == {"get_post", "update_post_title", "update_post_text", "increment_post_likes", "decrement_post_likes", "delete_post"}

\* The table and the id a by-id request names.
TableOf(r) == IF r.op \in UserByIdOps THEN "users" ELSE "posts"

IdOf(r) == IF r.op \in UserByIdOps THEN r.args.user_id ELSE r.args.post_id

\* The ids some INSERT has been given so far: those in the table and those deleted.
Assigned(t) == DOMAIN db[t] \cup deleted[t]

Rows(seq) == {seq[k] : k \in DOMAIN seq}

\* C1: once every increment_post_likes request on a post has completed, its
\* likes is greater than at its creation by the number of those requests,
\* however their reads and commits interleaved (no decrement completed).
C1_NoLostIncrement ==
    AllIdle => \A p \in DOMAIN db.posts :
                  (p \in DOMAIN expected /\ expected[p].pure) => db.posts[p].likes = expected[p].likes

\* C2: a by-id request (get, field update, increment, decrement, delete) that
\* looks up an id that was never assigned, or whose record has been deleted
\* before the lookup, is answered 404: a get is not answered otherwise, and a
\* write request does not go on to its commit.
C2_GoneIdIsNotFound ==
    [][/\ (Answer.op \in {"get_user", "get_post"}
           /\ (IdOf(Answer) \notin Assigned(TableOf(Answer)) \/ IdOf(Answer) \in deleted[TableOf(Answer)]))
          => Answer.status = 404
       /\ \A b \in Begun : b.work.id \in Assigned(b.work.table) /\ b.work.id \notin deleted[b.work.table]]_vars

\* C3: the id an INSERT assigns differs from every id an earlier INSERT into
\* the same table was given, the ids of deleted records included.
C3_IdsNeverReused ==
    [][\A new \in Inserted : new.work.id \notin Assigned(new.work.table)]_vars

\* C4: a get by the id a create has just returned (no response in between)
\* succeeds with the very record the create returned; the record a create
\* stores carries the assigned id, the fields of the body and the defaults of
\* the fields the body left out.
C4_GetAfterCreate ==
    [][/\ \A pair \in {<<"create_user", "get_user">>, <<"create_post", "get_post">>} :
            (resp.op = pair[1] /\ resp.status = 200 /\ Answer.op = pair[2]
             /\ IdOf(Answer) = resp.rows[1].id)
            => (Answer.status = 200 /\ Answer.rows = resp.rows)
       /\ \A new \in Inserted :
            LET row == db'[new.work.table][new.work.id]
            IN  /\ row.id = new.work.id
                /\ new.op = "create_user" =>
                     /\ row.username = new.args.username
                     /\ row.is_admin = (IF "is_admin" \in DOMAIN new.args THEN new.args.is_admin ELSE FALSE)
                     /\ row.image_url = (IF "image_url" \in DOMAIN new.args THEN new.args.image_url ELSE None)
                /\ new.op = "create_post" =>
                     /\ row.user_id = new.args.user_id /\ row.title = new.args.title
                     /\ row.post_text = new.args.post_text /\ row.likes = 0]_vars

C4_Witness ==
    /\ prior.resp.op = "create_user" /\ resp.op = "get_user"
    /\ resp.args.user_id = prior.resp.rows[1].id
    /\ "is_admin" \notin DOMAIN prior.resp.args
    /\ resp.status = 200
    /\ resp.rows = prior.resp.rows
    /\ resp.rows[1].is_admin = FALSE /\ resp.rows[1].image_url = None

\* C5: get_users(name) / get_posts(title) with a filter value, the empty
\* string included, return exactly the records whose username / title equals
\* it; with no filter, every record; never an error.
C5_FilterIsExact ==
    [][/\ Answer.op = "get_users" =>
            /\ Answer.status = 200
            /\ Len(Answer.rows) = Cardinality(Rows(Answer.rows))
            /\ Rows(Answer.rows) = {db.users[i] : i \in {j \in DOMAIN db.users :
                                       Answer.args.name = None \/ db.users[j].username = Answer.args.name}}
       /\ Answer.op = "get_posts" =>
            /\ Answer.status = 200
            /\ Len(Answer.rows) = Cardinality(Rows(Answer.rows))
            /\ Rows(Answer.rows) = {db.posts[i] : i \in {j \in DOMAIN db.posts :
                                       Answer.args.title = None \/ db.posts[j].title = Answer.args.title}}]_vars

\* The posts get_posts_by_user(u) returns on database d.
PostsOf(d, u) == {d.posts[i] : i \in {j \in DOMAIN d.posts : d.posts[j].user_id = u}}

\* C6: the commit of delete_user leaves the posts table, hence
\* get_posts_by_user of that id, as it was; on a user that is stored it
\* answers 200 whatever posts carry the id, and the user is gone.
C6_DeleteUserKeepsPosts ==
    [][\A c \in Committed : c.op = "delete_user" =>
          /\ db'.posts = db.posts
          /\ PostsOf(db', c.args.user_id) = PostsOf(db, c.args.user_id)
          /\ c.args.user_id \in DOMAIN db.users =>
                (Answer.status = 200 /\ c.args.user_id \notin DOMAIN db'.users)]_vars

C6_Witness ==
    /\ resp.op = "delete_user" /\ resp.status = 200
    /\ resp.args.user_id \notin DOMAIN db.users
    /\ resp.args.user_id \in deleted.users
    /\ PostsOf(db, resp.args.user_id) # {}

\* C7: increment_post_likes then decrement_post_likes on the same post, each
\* committing the likes it read with no other write of the post in between:
\* the increment answers 200 and leaves likes one higher, and the decrement
\* answered next leaves likes at its value before the two.
C7_IncrementThenDecrement ==
    [][\A c \in Committed :
          (c.op \in AdjustOps /\ c.work.id \in DOMAIN db.posts /\ c.work.old = db.posts[c.work.id].likes)
          => /\ c.op = "increment_post_likes" =>
                  (Answer.status = 200 /\ db'.posts[c.work.id].likes = db.posts[c.work.id].likes + 1)
             /\ (c.op = "decrement_post_likes" /\ resp.op = "increment_post_likes" /\ resp.status = 200
                 /\ resp.args.post_id = c.work.id /\ db.posts[c.work.id].likes = seen + 1)
                => (Answer.status = 200 /\ db'.posts[c.work.id].likes = seen)]_vars

C7_Witness ==
    /\ prior.resp.op = "increment_post_likes" /\ resp.op = "decrement_post_likes"
    /\ resp.args.post_id = prior.resp.args.post_id
    /\ resp.status = 200
    /\ prior.likes = 0 - 1
    /\ seen = 0
    /\ db.posts[resp.args.post_id].likes = 0 - 1

\* C8: the scenario of section 8, the requests one after the other: from an
\* empty store, create user "ada" (id 1, is_admin false, image_url null),
\* create a post for user 1 (id 1, likes 0), two increments (likes 2), one
\* decrement (likes 1), delete_post(1), then get_post(1) is answered 404.
C8_Scenario ==
    /\ stage = 1 => (resp.status = 200 /\ resp.rows = <<[id |-> 1, username |-> "ada", is_admin |-> FALSE, image_url |-> None]>>)
    /\ stage = 2 => (resp.status = 200 /\ resp.rows[1].id = 1 /\ resp.rows[1].likes = 0)
    /\ stage = 4 => (resp.status = 200 /\ db.posts[1].likes = 2)
    /\ stage = 5 => (resp.status = 200 /\ db.posts[1].likes = 1)
    /\ stage = 6 => (resp.status = 200 /\ (AllIdle => 1 \notin DOMAIN db.posts))
    /\ stage = 7 => resp.status = 404

C8_Witness == stage = 7 /\ resp.op = "get_post" /\ resp.status = 404

\* The field each update handler names, and the parameter that carries its value.
FieldOf ==
    [update_user_name |-> "username", update_user_is_admin |-> "is_admin", update_user_image |-> "image_url",
     update_post_title |-> "title", update_post_text |-> "post_text"]

ParamOf ==
    [update_user_name |-> "name", update_user_is_admin |-> "is_admin", update_user_image |-> "image_url",
     update_post_title |-> "title", update_post_text |-> "post_text"]

OtherTable(t) == IF t = "users" THEN "posts" ELSE "users"

\* The commit of a field update answered 200 on a stored record leaves every
\* other field of the record, every other record of the collection and the
\* whole other collection as they were.
UpdateFrame(c) ==
    LET t == TableOf(c)
        id == IdOf(c)
    IN  /\ DOMAIN db'[t] = DOMAIN db[t]
        /\ \A i \in DOMAIN db[t] : \A g \in DOMAIN db[t][i] :
              (i # id \/ g # FieldOf[c.op]) => db'[t][i][g] = db[t][i][g]
        /\ db'[OtherTable(t)] = db[OtherTable(t)]

\* C9 as stated: the commit of a field update answered 200 on a stored
\* record leaves the named field at the given value and everything else as
\* it was.
C9_UpdateSetsOneField ==
    [][\A c \in Committed :
          (c.op \in DOMAIN FieldOf /\ Answer.status = 200 /\ IdOf(c) \in DOMAIN db[TableOf(c)])
          => /\ UpdateFrame(c)
             /\ db'[TableOf(c)][IdOf(c)][FieldOf[c.op]] = c.args[ParamOf[c.op]]]_vars

\* C9 amended: the commit of a field update answered 200 on a stored record
\* leaves everything but the named field as it was; the named field holds
\* the given value when that differs from the value the handler read or the
\* field still holds the value read, and else (the value given is the value
\* read, and another request has changed the field since) the field is left
\* as the other request set it.
C9_UpdateSetsOneFieldUnlessStale ==
    [][\A c \in Committed :
          (c.op \in DOMAIN FieldOf /\ Answer.status = 200 /\ IdOf(c) \in DOMAIN db[TableOf(c)])
          => LET t == TableOf(c)
                 id == IdOf(c)
                 f == FieldOf[c.op]
                 value == c.args[ParamOf[c.op]]
             IN  /\ UpdateFrame(c)
                 /\ db'[t][id][f] = IF c.work.old # value \/ db[t][id][f] = c.work.old
                                    THEN value ELSE db[t][id][f]]_vars

\* An update of one of two stored posts has set its field; the other post
\* keeps the fields an earlier update gave it, and a user is stored.
C9_Witness ==
    /\ resp.op = "update_post_title" /\ resp.status = 200
    /\ resp.args.post_id = 1 /\ resp.args.title = ""
    /\ DOMAIN db.posts = {1, 2}
    /\ db.posts[1].title = "" /\ db.posts[1].post_text = "world"
    /\ db.posts[2].title = "hi" /\ db.posts[2].post_text = "moon"
    /\ db.users # << >>

\* C10: when a mutating request ends in a failure, no write of that request
\* has reached the store: the step that fails changes nothing and the
\* request had committed nothing before.
C10_FailureLeavesNoChange ==
    [][\A s \in Sessions :
          (sess[s].pc # "idle" /\ sess'[s].pc = "idle" /\ resp'.status = 500)
          => (db' = db /\ ~sess[s].wrote)]_vars

\* C11: the step that takes a request up opens exactly one session, the
\* one that serves it; a session is opened by no other step and is open
\* while its request is in flight; the step that ends the request closes it,
\* on the return, on the 404 and on a storage failure in db.get, db.execute,
\* db.commit or db.refresh; and once every request has ended no session is
\* open.
C11_SessionReleased ==
    [][/\ \A s \in Sessions : Began(s) =>
             {t \in Sessions : ~sess[t].open /\ sess'[t].open} = {s}
       /\ \A s \in Sessions : (~sess[s].open /\ sess'[s].open) => Began(s)
       /\ \A s \in Sessions : sess'[s].pc # "idle" => sess'[s].open
       /\ \A s \in Sessions : Ended(s) => (sess[s].open /\ ~sess'[s].open)
       /\ (\A s \in Sessions : sess'[s].pc = "idle") => \A s \in Sessions : ~sess'[s].open]_vars

\* Requests have ended in each of the six ways and every session is closed.
C11_Witness ==
    /\ exits = Exits
    /\ \A s \in Sessions : sess[s].pc = "idle" /\ ~sess[s].open

\* C12: the likes of a post changes only through increment_post_likes and
\* decrement_post_likes on that post: a post that comes into being is the
\* row of a create_post and has likes 0 whatever the body carried, and the
\* likes of a stored post changes only in the commit of an adjustment of
\* that post.
C12_LikesOnlyAdjusted ==
    [][/\ \A p \in DOMAIN db'.posts \ DOMAIN db.posts :
             /\ db'.posts[p].likes = 0
             /\ \E new \in Inserted : new.op = "create_post" /\ new.work.id = p
       /\ \A p \in DOMAIN db'.posts \cap DOMAIN db.posts :
             db'.posts[p].likes # db.posts[p].likes
                => \E c \in Committed : c.op \in AdjustOps /\ c.args.post_id = p]_vars

C12_Witness ==
    /\ resp.op = "create_post" /\ resp.status = 200
    /\ "likes" \in DOMAIN resp.args /\ resp.args.likes # 0
    /\ resp.rows[1].likes = 0
    /\ resp.rows[1].id \in DOMAIN db.posts
    /\ db.posts[resp.rows[1].id].likes = 0

\* C13: the commit of decrement_post_likes on a stored post answers 200 and
\* stores the likes the handler read less one, also at and below zero (one
\* lower than the stored likes when no other adjustment committed since the
\* read); nothing else changes.
C13_DecrementUnbounded ==
    [][\A c \in Committed :
          (c.op = "decrement_post_likes" /\ c.args.post_id \in DOMAIN db.posts)
          => LET p == c.args.post_id
             IN  /\ Answer.status = 200
                 /\ Answer.detail = "Post likes decremented"
                 /\ db' = [db EXCEPT !.posts[p].likes = c.work.old - 1]]_vars

C13_Witness ==
    /\ resp.op = "decrement_post_likes" /\ resp.status = 200
    /\ resp.args.post_id \in DOMAIN db.posts
    /\ db.posts[resp.args.post_id].likes = 0 - 2
    /\ seen = 0 - 1

ReadOps == {"get_users", "get_user", "get_posts", "get_posts_by_user", "get_post"}

\* C15: a request answered 404, and every read request whatever its answer,
\* leaves both tables exactly as they were.
C15_ReadsAndNotFoundChangeNothing ==
    [][(Answer.status = 404 \/ Answer.op \in ReadOps) => db' = db]_vars

C15_Witness ==
    /\ resp.status = 404
    /\ resp.op \in {"delete_user", "delete_post", "update_post_title", "decrement_post_likes"}
    /\ db.users # << >>
    /\ db.posts # << >>

\* C16: startup on a database that holds the two tables leaves every record
\* as it was and raises nothing, and running it once more changes nothing
\* either, on the database it left and on a new file alike.
C16_StartupIdempotent ==
    [][Answer.op = "startup"
       => /\ db' = db
          /\ CreateAll(db') = db'
          /\ CreateAll(CreateAll(NoTables)) = CreateAll(NoTables)]_vars

C16_Witness ==
    /\ resp.op = "startup"
    /\ db.users # << >>
    /\ db.posts # << >>

\* C17: a row comes into being only through the INSERT of a create handler:
\* the commit of a field update or of a likes adjustment whose row a
\* concurrent delete has removed leaves the row removed, for posts and for
\* users, however the reads and commits interleaved.
C17_NoResurrection ==
    [][\A t \in {"users", "posts"} : \A p \in DOMAIN db'[t] \ DOMAIN db[t] :
          \E s \in Sessions : /\ sess[s].pc = "idle" /\ sess'[s].pc = "refresh"
                              /\ sess'[s].work.table = t /\ sess'[s].work.id = p]_vars

C17_Witness ==
    /\ resp.op \in {"update_post_title", "update_post_text", "increment_post_likes"}
    /\ resp.status = 500
    /\ resp.args.post_id \notin DOMAIN db.posts
    /\ AllIdle

\* C18: the commit of an update writes the field it assigned and no other:
\* every other field of the row keeps the value stored at the time of the
\* commit, also when a concurrent request changed it after this request had
\* read the row, so that concurrent updates of different fields both last.
C18_FieldsDoNotOverwrite ==
    [][\A s \in Sessions :
          (/\ sess[s].pc = "commit" /\ sess'[s].pc = "idle"
           /\ sess[s].work.kind = "update"
           /\ resp'.status = 200
           /\ sess[s].work.id \in DOMAIN db[sess[s].work.table])
          => LET work == sess[s].work
                 row == db[work.table][work.id]
             IN  /\ work.id \in DOMAIN db'[work.table]
                 /\ \A f \in DOMAIN row \ {work.field} : db'[work.table][work.id][f] = row[f]
                 /\ work.old # work.new => db'[work.table][work.id][work.field] = work.new]_vars

C18_Witness ==
    /\ resp.op = "update_post_title" /\ resp.status = 200
    /\ resp.args.post_id \in DOMAIN db.posts
    /\ db.posts[resp.args.post_id].title = ""
    /\ resp.args.title = ""
    /\ seen = 0
    /\ db.posts[resp.args.post_id].likes = 1
====
